---- MODULE Spec2Model ----
(***************************************************************************)
(* A model of the day/area co-occurrence graph: build_graph and            *)
(* bfs_distances (src/graph.rs) and the metrics of src/analysis.rs.        *)
(*                                                                         *)
(* The graph is petgraph's UnGraph: a vector of node weights and a vector  *)
(* of edges <<source, target>>, in insertion order.  Node indices are the  *)
(* positions in the node vector (1-based here, 0-based in petgraph).       *)
(* A HashMap's iteration order is unspecified: every place where the code  *)
(* iterates over a HashMap takes its order as a nondeterministic input.    *)
(***************************************************************************)
EXTENDS Integers, Sequences, FiniteSets, TLC

\* Bounds of the model.
MaxRecords == 3
MaxNodes == 3
MaxEdges == 2

\* A NaiveDate is <<year, month, day>>.
Dates == {<<2025, 4, 1>>, <<2025, 4, 2>>}
Areas == {"A", "B", "C"}
Records == Dates \X Areas

VARIABLES
    entries,     \* build_graph: the (day, area) records read from the file
    built,       \* TRUE iff graph is the result of build_graph(entries)
    graph,       \* the Graph: [nodes: Seq of weights, edges: Seq of <<a, b>>]
    pc,          \* "input" | "ready" | "bfs" | "done"
    start,       \* bfs_distances: the start node (0: none)
    dist,        \* bfs_distances: the HashMap dist
    queue,       \* bfs_distances: the VecDeque queue
    pushes,      \* per node, the number of queue.push_back calls made for it
    pops,        \* per node, the number of times queue.pop_front returned it
    iterations,  \* the number of iterations of the while loop so far
    result       \* the value the last operation returned: [op, val]

vars == <<entries, built, graph, pc, start, dist, queue, pushes, pops,
          iterations, result>>

----------------------------------------------------------------------------
\* Generic helpers.

Range(s) == {s[i] : i \in DOMAIN s}

SeqsUpTo(S, k) == UNION {[1..m -> S] : m \in 0..k}

\* All orders (sequences without repetition) of the finite set S.
Orders(S) == {s \in [1..Cardinality(S) -> S] : Range(s) = S}

Min(a, b) == IF a <= b THEN a ELSE b

RECURSIVE SumOver(_, _)
SumOver(f, S) ==
    IF S = {} THEN 0
    ELSE LET x == CHOOSE y \in S : TRUE IN f[x] + SumOver(f, S \ {x})

----------------------------------------------------------------------------
\* The Graph Store: petgraph's UnGraph<(NaiveDate, String), ()>.

new_undirected == [nodes |-> <<>>, edges |-> <<>>]

node_count(g) == Len(g.nodes)

edge_count(g) == Len(g.edges)

node_indices(g) == 1..Len(g.nodes)

\* add_node pushes the weight and returns the new node's index.
add_node(g, w) == [g EXCEPT !.nodes = Append(@, w)]

add_edge(g, a, b) == [g EXCEPT !.edges = Append(@, <<a, b>>)]

\* find_edge of an undirected graph finds an edge in either direction.
find_edge(g, a, b) ==
    \E i \in DOMAIN g.edges : g.edges[i] = <<a, b>> \/ g.edges[i] = <<b, a>>

\* petgraph's adjacency lists are linked lists with the most recently added
\* edge at the head: a's outgoing edges, newest first, as their targets.
RECURSIVE OutgoingTargets(_, _, _)
OutgoingTargets(es, i, a) ==
    IF i = 0 THEN <<>>
    ELSE (IF es[i][1] = a THEN <<es[i][2]>> ELSE <<>>)
         \o OutgoingTargets(es, i - 1, a)

\* a's incoming edges, newest first, as their sources; a self loop is skipped,
\* the outgoing pass has yielded it already.
RECURSIVE IncomingSources(_, _, _)
IncomingSources(es, i, a) ==
    IF i = 0 THEN <<>>
    ELSE (IF es[i][2] = a /\ es[i][1] # a THEN <<es[i][1]>> ELSE <<>>)
         \o IncomingSources(es, i - 1, a)

\* neighbors(a) of an undirected graph: first the outgoing, then the incoming
\* edges.
neighbors(g, a) ==
    OutgoingTargets(g.edges, Len(g.edges), a)
    \o IncomingSources(g.edges, Len(g.edges), a)

\* tuple_combinations taken for tuple_windows: the pairs of consecutive
\* elements only.
tuple_windows(s) == [j \in 1..(Len(s) - 1) |-> <<s[j], s[j + 1]>>]

\* itertools' tuple_combinations: the pairs (s[i], s[j]), i < j, in
\* lexicographic order of (i, j).
RECURSIVE tuple_combinations(_)
tuple_combinations(s) ==
    IF Len(s) < 2 THEN <<>>
    ELSE [j \in 1..(Len(s) - 1) |-> <<s[1], s[j + 1]>>]
         \o tuple_combinations(Tail(s))

----------------------------------------------------------------------------
\* build_graph.

\* AddNodes without or_insert_with's test: a node for every record.
RECURSIVE AddNodesPerRecord(_, _, _)
AddNodesPerRecord(es, i, st) ==
    IF i > Len(es) THEN st
    ELSE AddNodesPerRecord(es, i + 1,
                  [graph |-> add_node(st.graph, es[i]),
                   idx_map |-> (es[i] :> (node_count(st.graph) + 1)) @@ st.idx_map])

\* Step 2: one node per key first seen; st = [graph, idx_map].
RECURSIVE AddNodes(_, _, _)
AddNodes(es, i, st) ==
    IF i > Len(es) THEN st
    ELSE IF es[i] \in DOMAIN st.idx_map THEN AddNodes(es, i + 1, st)
    ELSE AddNodes(es, i + 1,
                  [graph |-> add_node(st.graph, es[i]),
                   idx_map |-> (es[i] :> (node_count(st.graph) + 1)) @@ st.idx_map])

\* Step 3, first loop: keyOrder is the order in which idx_map is iterated.
RECURSIVE GroupByDay(_, _, _, _)
GroupByDay(idx_map, keyOrder, i, daily) ==
    IF i > Len(keyOrder) THEN daily
    ELSE LET key == keyOrder[i]
             day == key[1]
             idx == idx_map[key]
             old == IF day \in DOMAIN daily THEN daily[day] ELSE <<>>
         IN GroupByDay(idx_map, keyOrder, i + 1,
                       (day :> Append(old, idx)) @@ daily)

\* The inner loop of step 3: the pairs of one day, each joined unless joined.
RECURSIVE ConnectPairs(_, _, _)
ConnectPairs(g, pairs, i) ==
    IF i > Len(pairs) THEN g
    ELSE LET a == pairs[i][1]
             b == pairs[i][2]
         IN ConnectPairs(IF find_edge(g, a, b) THEN g ELSE add_edge(g, a, b),
                         pairs, i + 1)

\* Step 3, second loop: dayOrder is the order in which daily is iterated.
RECURSIVE ConnectDays(_, _, _, _)
ConnectDays(g, daily, dayOrder, i) ==
    IF i > Len(dayOrder) THEN g
    ELSE ConnectDays(ConnectPairs(g, tuple_combinations(daily[dayOrder[i]]), 1),
                     daily, dayOrder, i + 1)

build_graph_nodes(es) ==
    AddNodes(es, 1, [graph |-> new_undirected, idx_map |-> <<>>])

build_graph(es, keyOrder, dayOrder) ==
    LET st == build_graph_nodes(es)
        daily == GroupByDay(st.idx_map, keyOrder, 1, <<>>)
    IN ConnectDays(st.graph, daily, dayOrder, 1)

----------------------------------------------------------------------------
\* bfs_distances.

\* VisitNeighbors giving a neighbour the distance d of the dequeued node.
RECURSIVE VisitNeighborsSameLevel(_, _, _, _)
VisitNeighborsSameLevel(nbrs, i, d, st) ==
    IF i > Len(nbrs) THEN st
    ELSE IF nbrs[i] \in DOMAIN st.dist
         THEN VisitNeighborsSameLevel(nbrs, i + 1, d, st)
    ELSE VisitNeighborsSameLevel(nbrs, i + 1, d,
                        [dist |-> (nbrs[i] :> d) @@ st.dist,
                         queue |-> Append(st.queue, nbrs[i])])

\* VisitNeighbors with a node marked visited when it is dequeued, not when it
\* is enqueued: a neighbour still waiting in the queue is taken as unvisited.
RECURSIVE VisitNeighborsMarkedAtDequeue(_, _, _, _)
VisitNeighborsMarkedAtDequeue(nbrs, i, d, st) ==
    IF i > Len(nbrs) THEN st
    ELSE IF nbrs[i] \in DOMAIN st.dist /\ nbrs[i] \notin Range(st.queue)
         THEN VisitNeighborsMarkedAtDequeue(nbrs, i + 1, d, st)
    ELSE VisitNeighborsMarkedAtDequeue(nbrs, i + 1, d,
                        [dist |-> (nbrs[i] :> (d + 1)) @@ st.dist,
                         queue |-> Append(st.queue, nbrs[i])])

\* The for loop over the neighbours of the dequeued node; st = [dist, queue].
RECURSIVE VisitNeighbors(_, _, _, _)
VisitNeighbors(nbrs, i, d, st) ==
    IF i > Len(nbrs) THEN st
    ELSE IF nbrs[i] \in DOMAIN st.dist THEN VisitNeighbors(nbrs, i + 1, d, st)
    ELSE VisitNeighbors(nbrs, i + 1, d,
                        [dist |-> (nbrs[i] :> (d + 1)) @@ st.dist,
                         queue |-> Append(st.queue, nbrs[i])])

\* One iteration of the while loop, the queue not empty.
BfsIteration(g, st) ==
    LET node == Head(st.queue)
        d == st.dist[node]
    IN VisitNeighbors(neighbors(g, node), 1, d,
                      [dist |-> st.dist, queue |-> Tail(st.queue)])

BfsInit(s) == [dist |-> (s :> 0), queue |-> <<s>>]

RECURSIVE BfsRun(_, _)
BfsRun(g, st) ==
    IF st.queue = <<>> THEN st.dist ELSE BfsRun(g, BfsIteration(g, st))

bfs_distances(g, s) == BfsRun(g, BfsInit(s))

----------------------------------------------------------------------------
\* f64 values.  The operands are small non-negative integers, every one of them
\* exact in f64, and a correctly rounded quotient is a function of the exact
\* quotient that is injective on quotients of such small operands: a quotient
\* is its fraction in lowest terms, NaN (0/0) or inf (x/0, x > 0).

RECURSIVE GCD(_, _)
GCD(a, b) == IF b = 0 THEN a ELSE GCD(b, a % b)

NaN == [kind |-> "NaN"]

F64(a) == [kind |-> "num", num |-> a, den |-> 1]

F64Div(a, b) ==
    IF b = 0 THEN (IF a = 0 THEN NaN ELSE [kind |-> "inf"])
    ELSE [kind |-> "num", num |-> a \div GCD(a, b), den |-> b \div GCD(a, b)]

\* f64::partial_cmp: None when an operand is NaN.
partial_cmp(x, y) ==
    IF x.kind = "NaN" \/ y.kind = "NaN" THEN "None"
    ELSE IF x.kind = "inf" THEN (IF y.kind = "inf" THEN "Equal" ELSE "Greater")
    ELSE IF y.kind = "inf" THEN "Less"
    ELSE IF x.num * y.den < y.num * x.den THEN "Less"
    ELSE IF x.num * y.den > y.num * x.den THEN "Greater"
    ELSE "Equal"

----------------------------------------------------------------------------
\* degree_distribution.

\* DegreeCounts setting a degree's count to 1 instead of adding 1 to it.
RECURSIVE DegreeCountsOverwrite(_, _, _)
DegreeCountsOverwrite(g, node, counts) ==
    IF node > node_count(g) THEN counts
    ELSE LET deg == Len(neighbors(g, node))
         IN DegreeCountsOverwrite(g, node + 1, (deg :> 1) @@ counts)

RECURSIVE DegreeCounts(_, _, _)
DegreeCounts(g, node, counts) ==
    IF node > node_count(g) THEN counts
    ELSE LET deg == Len(neighbors(g, node))
             old == IF deg \in DOMAIN counts THEN counts[deg] ELSE 0
         IN DegreeCounts(g, node + 1, (deg :> (old + 1)) @@ counts)

degree_distribution(g) == DegreeCounts(g, 1, <<>>)

----------------------------------------------------------------------------
\* avg_shortest_path.

\* SumAllPairs counting every node as a pair of the start node, reachable or
\* not.
RECURSIVE SumAllPairsEveryNode(_, _, _)
SumAllPairsEveryNode(g, s, acc) ==
    IF s > node_count(g) THEN acc
    ELSE LET dm == bfs_distances(g, s)
         IN SumAllPairsEveryNode(g, s + 1,
                        [total |-> acc.total + SumOver(dm, DOMAIN dm),
                         pairs |-> acc.pairs + node_count(g)])

\* The loop over the start nodes; acc = [total, pairs].
RECURSIVE SumAllPairs(_, _, _)
SumAllPairs(g, s, acc) ==
    IF s > node_count(g) THEN acc
    ELSE LET dm == bfs_distances(g, s)
         IN SumAllPairs(g, s + 1,
                        [total |-> acc.total + SumOver(dm, DOMAIN dm),
                         pairs |-> acc.pairs + Cardinality(DOMAIN dm)])

avg_shortest_path(g) ==
    LET acc == SumAllPairs(g, 1, [total |-> 0, pairs |-> 0])
    IN F64Div(acc.total, acc.pairs)

----------------------------------------------------------------------------
\* closeness_centrality.

Digit(d) == <<"0", "1", "2", "3", "4", "5", "6", "7", "8", "9">>[d + 1]

\* The decimal digits of n, zero-padded to at least w digits.
RECURSIVE ZeroPadded(_, _)
ZeroPadded(n, w) ==
    IF n < 10 /\ w <= 1 THEN Digit(n)
    ELSE ZeroPadded(n \div 10, w - 1) \o Digit(n % 10)

\* NaiveDate's Display: %Y-%m-%d.
to_string(day) ==
    ZeroPadded(day[1], 4) \o "-" \o ZeroPadded(day[2], 2) \o "-"
    \o ZeroPadded(day[3], 2)

\* Score without the test of the sum: a division by 0.0 for a node that
\* reaches no other.
ScoreUnguarded(g, node) ==
    LET dm == bfs_distances(g, node)
        sum == SumOver(dm, DOMAIN dm)
        w == g.nodes[node]
    IN <<<<to_string(w[1]), w[2]>>, F64Div(node_count(g) - 1, sum)>>

\* The closure of the map: one node's ((day, area), score).
Score(g, node) ==
    LET dm == bfs_distances(g, node)
        sum == SumOver(dm, DOMAIN dm)
        score == IF sum > 0 THEN F64Div(node_count(g) - 1, sum) ELSE F64(0)
        w == g.nodes[node]
    IN <<<<to_string(w[1]), w[2]>>, score>>

\* The comparator given to sort_by; "None" is where unwrap panics.
ByScoreDescending(a, b) == partial_cmp(b[2], a[2])

\* InsertAt of a sort that is not stable: x goes before the elements it
\* compares Equal to.
RECURSIVE InsertAtBeforeEqual(_, _, _)
InsertAtBeforeEqual(s, i, x) ==
    IF i = 0 THEN 0
    ELSE IF ByScoreDescending(s[i], x) \in {"Greater", "Equal"}
         THEN InsertAtBeforeEqual(s, i - 1, x)
    ELSE i

\* The place of x in the sorted sequence s, scanning from the right: after the
\* last element that does not compare Greater than x.
RECURSIVE InsertAt(_, _, _)
InsertAt(s, i, x) ==
    IF i = 0 THEN 0
    ELSE IF ByScoreDescending(s[i], x) = "Greater" THEN InsertAt(s, i - 1, x)
    ELSE i

\* slice::sort_by, a stable sort (an insertion sort on short slices);
\* st = [panicked, list].
RECURSIVE sort_by(_, _, _)
sort_by(s, i, st) ==
    IF i > Len(s) \/ st.panicked THEN st
    ELSE LET x == s[i]
             k == InsertAt(st.list, Len(st.list), x)
             none == \E j \in DOMAIN st.list :
                         ByScoreDescending(st.list[j], x) = "None"
         IN sort_by(s, i + 1,
                    [panicked |-> none,
                     list |-> SubSeq(st.list, 1, k) \o <<x>>
                              \o SubSeq(st.list, k + 1, Len(st.list))])

take(s, n) == SubSeq(s, 1, Min(n, Len(s)))

\* [panicked, list]: the returned vector, or the panic of the unwrap.
closeness_centrality(g, n) ==
    LET scores == [node \in 1..node_count(g) |-> Score(g, node)]
        sorted == sort_by(scores, 1, [panicked |-> FALSE, list |-> <<>>])
    IN IF sorted.panicked THEN [panicked |-> TRUE, list |-> <<>>]
       ELSE [panicked |-> FALSE, list |-> take(sorted.list, n)]

----------------------------------------------------------------------------
\* component_count: petgraph's connected_components, a union-find over the
\* edges.

RECURSIVE Find(_, _)
Find(parent, x) == IF parent[x] = x THEN x ELSE Find(parent, parent[x])

\* Union linking the two nodes instead of their roots.
UnionOfNodes(parent, a, b) ==
    IF Find(parent, a) = Find(parent, b) THEN parent
    ELSE [parent EXCEPT ![a] = b]

Union(parent, a, b) ==
    LET ra == Find(parent, a)
        rb == Find(parent, b)
    IN IF ra = rb THEN parent ELSE [parent EXCEPT ![ra] = rb]

RECURSIVE UnionEdges(_, _, _)
UnionEdges(es, i, parent) ==
    IF i > Len(es) THEN parent
    ELSE UnionEdges(es, i + 1, Union(parent, es[i][1], es[i][2]))

component_count(g) ==
    LET parent == UnionEdges(g.edges, 1, [x \in node_indices(g) |-> x])
    IN Cardinality({Find(parent, x) : x \in node_indices(g)})

----------------------------------------------------------------------------
\* The state machine.

AreaNames == <<"A", "B", "C", "D", "E">>

\* A graph made with add_node and add_edge directly, as the tests make theirs:
\* any edge list over the nodes, self loops and parallel edges included.
GivenGraphs ==
    UNION {{[nodes |-> [i \in 1..n |-> <<<<2025, 4, i>>, AreaNames[i]>>],
             edges |-> es] : es \in SeqsUpTo((1..n) \X (1..n), MaxEdges)}
           : n \in 0..MaxNodes}

NoBfs ==
    /\ start = 0
    /\ dist = <<>>
    /\ queue = <<>>
    /\ pushes = <<>>
    /\ pops = <<>>
    /\ iterations = 0

\* The records of an input file, not yet built into a graph.
InitRecords ==
    /\ entries \in SeqsUpTo(Records, MaxRecords)
    /\ built = FALSE
    /\ graph = new_undirected
    /\ pc = "input"
    /\ result = [op |-> "none"]
    /\ NoBfs

\* A graph handed to the analysis as it is.
InitGiven ==
    /\ entries = <<>>
    /\ built = FALSE
    /\ graph \in GivenGraphs
    /\ pc = "ready"
    /\ result = [op |-> "none"]
    /\ NoBfs

Init == InitRecords \/ InitGiven

BuildGraph ==
    /\ pc = "input"
    /\ LET idx_map == build_graph_nodes(entries).idx_map
       IN \E keyOrder \in Orders(DOMAIN idx_map) :
          \E dayOrder \in Orders({key[1] : key \in DOMAIN idx_map}) :
              graph' = build_graph(entries, keyOrder, dayOrder)
    /\ built' = TRUE
    /\ pc' = "ready"
    /\ result' = [op |-> "build_graph"]
    /\ UNCHANGED <<entries, start, dist, queue, pushes, pops, iterations>>

\* How often x occurs in the sequence s.
Count(s, x) == Cardinality({i \in DOMAIN s : s[i] = x})

\* bfs_distances up to the loop: the start node gets distance 0 and is queued.
BfsStart(s) ==
    /\ pc = "ready"
    /\ s \in node_indices(graph)
    /\ start' = s
    /\ dist' = BfsInit(s).dist
    /\ queue' = BfsInit(s).queue
    /\ pushes' = [n \in node_indices(graph) |-> Count(BfsInit(s).queue, n)]
    /\ pops' = [n \in node_indices(graph) |-> 0]
    /\ iterations' = 0
    /\ pc' = "bfs"
    /\ UNCHANGED <<entries, built, graph, result>>

\* One iteration of the while loop: pop_front returned a node.
BfsLoop ==
    /\ pc = "bfs"
    /\ queue # <<>>
    /\ LET st == BfsIteration(graph, [dist |-> dist, queue |-> queue])
           pushed == SubSeq(st.queue, Len(queue), Len(st.queue))
       IN /\ dist' = st.dist
          /\ queue' = st.queue
          /\ pushes' = [n \in node_indices(graph) |-> pushes[n] + Count(pushed, n)]
    /\ pops' = [pops EXCEPT ![Head(queue)] = @ + 1]
    /\ iterations' = iterations + 1
    /\ UNCHANGED <<entries, built, graph, pc, start, result>>

\* pop_front returned None: the loop ends and dist is returned.
BfsReturn ==
    /\ pc = "bfs"
    /\ queue = <<>>
    /\ pc' = "done"
    /\ result' = [op |-> "bfs_distances", val |-> dist]
    /\ UNCHANGED <<entries, built, graph, start, dist, queue, pushes, pops,
                   iterations>>

Return(op, val) ==
    /\ pc = "ready"
    /\ pc' = "done"
    /\ result' = [op |-> op, val |-> val]
    /\ UNCHANGED <<entries, built, graph, start, dist, queue, pushes, pops,
                   iterations>>

DegreeDistribution == Return("degree_distribution", degree_distribution(graph))

AvgShortestPath == Return("avg_shortest_path", avg_shortest_path(graph))

ClosenessCentrality(n) ==
    Return("closeness_centrality",
           [n |-> n, top |-> closeness_centrality(graph, n)])

ComponentCount == Return("component_count", component_count(graph))

Next ==
    \/ BuildGraph
    \/ \E s \in 1..MaxNodes + MaxRecords : BfsStart(s)
    \/ BfsLoop
    \/ BfsReturn
    \/ DegreeDistribution
    \/ AvgShortestPath
    \/ \E n \in 0..(MaxNodes + 1) : ClosenessCentrality(n)
    \/ ComponentCount

Spec == Init /\ [][Next]_vars

----------------------------------------------------------------------------
\* What the properties are stated with: adjacency, reachability and distance
\* defined from the edge list alone, with no queue.

Adjacent(g, u, v) == <<u, v>> \in Range(g.edges) \/ <<v, u>> \in Range(g.edges)

\* The nodes at most k edges away from u.
RECURSIVE Within(_, _, _)
Within(g, u, k) ==
    IF k = 0 THEN {u}
    ELSE LET B == Within(g, u, k - 1)
         IN B \cup {v \in node_indices(g) : \E w \in B : Adjacent(g, w, v)}

Reachable(g, u) == Within(g, u, node_count(g))

\* The least number of edges on a path from u to v, v reachable from u.
Distance(g, u, v) ==
    CHOOSE k \in 0..node_count(g) :
        /\ v \in Within(g, u, k)
        /\ \A j \in 0..(k - 1) : v \notin Within(g, u, j)

\* The sum of the distances from u to the nodes reachable from u.
DistanceSum(g, u) ==
    SumOver([v \in Reachable(g, u) |-> Distance(g, u, v)], Reachable(g, u))

Components(g) == {Reachable(g, u) : u \in node_indices(g)}

DayOf(g, u) == g.nodes[u][1]

Returned(op) == pc = "done" /\ result.op = op

JustBuilt == pc = "ready" /\ result.op = "build_graph"

----------------------------------------------------------------------------
\* Graph Builder.

\* How many edges join u and v, in either direction.
EdgesBetween(g, u, v) ==
    Cardinality({i \in DOMAIN g.edges :
                    g.edges[i] = <<u, v>> \/ g.edges[i] = <<v, u>>})

\* A graph by node identity: the set of weights, and the edges as sets of the
\* weights they join.
NodeSet(g) == Range(g.nodes)

EdgeSet(g) == {{g.nodes[e[1]], g.nodes[e[2]]} : e \in Range(g.edges)}

\* build_graph with the HashMaps iterated in one order, whichever.
BuiltFrom(es) ==
    LET idx_map == build_graph_nodes(es).idx_map
    IN build_graph(es,
                   CHOOSE o \in Orders(DOMAIN idx_map) : TRUE,
                   CHOOSE o \in Orders({key[1] : key \in DOMAIN idx_map}) : TRUE)

ExampleRecords ==
    << <<<<2025, 4, 1>>, "A">>, <<<<2025, 4, 1>>, "B">>, <<<<2025, 4, 2>>, "A">> >>

\* C1: build_graph gives one node per distinct (date, location) pair of the
\* input and exactly one edge between every two distinct nodes of equal date,
\* no other edge (no self edge, no parallel edge, none across dates); every
\* permutation of the input gives the same node set and edge set; the three
\* example records give 3 nodes and 1 edge.
C1_BuildGraphNodesAndEdges ==
    JustBuilt =>
        /\ node_count(graph) = Cardinality(Range(entries))
        /\ NodeSet(graph) = Range(entries)
        /\ \A e \in Range(graph.edges) : e \in node_indices(graph) \X node_indices(graph)
        /\ \A u, v \in node_indices(graph) :
               EdgesBetween(graph, u, v) =
                   IF u # v /\ DayOf(graph, u) = DayOf(graph, v) THEN 1 ELSE 0
        /\ \A p \in Orders(DOMAIN entries) :
               LET g == BuiltFrom([i \in DOMAIN entries |-> entries[p[i]]])
               IN NodeSet(g) = NodeSet(graph) /\ EdgeSet(g) = EdgeSet(graph)
        /\ entries = ExampleRecords =>
               node_count(graph) = 3 /\ edge_count(graph) = 1

\* The example records, built.
C1_Witness ==
    /\ JustBuilt
    /\ entries = ExampleRecords
    /\ node_count(graph) = 3
    /\ edge_count(graph) = 1

----------------------------------------------------------------------------
\* Distance Engine.

ChainABC ==
    [nodes |-> [i \in 1..3 |-> <<<<2025, 4, i>>, AreaNames[i]>>],
     edges |-> <<<<1, 2>>, <<2, 3>>>>]

\* C2: the map bfs_distances returns has exactly the nodes reachable from the
\* start as its keys, the start with 0, each with the least number of edges of
\* a path from the start; on the chain A-B-C from A it is {A:0, B:1, C:2}.
C2_BfsDistancesAreShortest ==
    Returned("bfs_distances") =>
        /\ DOMAIN result.val = Reachable(graph, start)
        /\ result.val[start] = 0
        /\ \A v \in DOMAIN result.val : result.val[v] = Distance(graph, start, v)
        /\ (graph = ChainABC /\ start = 1) =>
               result.val = (1 :> 0) @@ (2 :> 1) @@ (3 :> 2)

\* The chain searched from A, with a node at distance 2.
C2_Witness ==
    /\ Returned("bfs_distances")
    /\ graph = ChainABC
    /\ start = 1
    /\ result.val[3] = 2

----------------------------------------------------------------------------
\* Metrics Engine.

\* C3: avg_shortest_path of a graph with no node or one node reports the
\* result as undefined, not as a number.  (NaN is taken as such a report here,
\* though it is what the division 0.0 / 0.0 gives.)
C3_AvgUndefinedBelowTwoNodes ==
    (Returned("avg_shortest_path") /\ node_count(graph) <= 1) =>
        result.val.kind # "num"

\* The score of node u as the specification defines it: a fraction [num, den].
ExpectedScore(g, u) ==
    IF DistanceSum(g, u) > 0
    THEN [num |-> node_count(g) - 1, den |-> DistanceSum(g, u)]
    ELSE [num |-> 0, den |-> 1]

\* The f64 x is the number of the fraction q.
IsNumber(x, q) == x.kind = "num" /\ x.num * q.den = q.num * x.den

LabelOf(g, u) == Score(g, u)[1]

ScoreOf(g, u) == Score(g, u)[2]

\* With sc[u] the (label, score) of node u: u ranks before v when it has the
\* greater score, or the same score and the smaller index.
RanksBefore(sc, u, v) ==
    \/ partial_cmp(sc[u][2], sc[v][2]) = "Greater"
    \/ sc[u][2] = sc[v][2] /\ u < v

\* The place of node u in the ranking.
Rank(sc, u) == 1 + Cardinality({v \in DOMAIN sc : RanksBefore(sc, v, u)})

\* C4: closeness_centrality(graph, n) does not abort and returns the first
\* min(n, node count) entries of the nodes' (label, score) pairs ordered by
\* score descending, equal scores in node-index order.
C4_ClosenessTopN ==
    Returned("closeness_centrality") =>
        LET n == result.val.n
            top == result.val.top
            sc == [u \in node_indices(graph) |-> Score(graph, u)]
        IN /\ ~top.panicked
           /\ Len(top.list) = Min(n, node_count(graph))
           /\ \A u \in node_indices(graph) :
                  Rank(sc, u) <= Len(top.list) => top.list[Rank(sc, u)] = sc[u]

\* More entries asked for than there are nodes, two nodes tied and two not.
C4_Witness ==
    /\ Returned("closeness_centrality")
    /\ result.val.n > node_count(graph)
    /\ Len(result.val.top.list) = node_count(graph)
    /\ \E u, v \in node_indices(graph) :
           u # v /\ ScoreOf(graph, u) = ScoreOf(graph, v)
    /\ \E u, v \in node_indices(graph) : ScoreOf(graph, u) # ScoreOf(graph, v)

\* C5: the closeness score of node v is (node count - 1) / S when S > 0 and 0
\* when S = 0, S the sum of the distances from v to the nodes reachable from
\* v; an isolated node and the node of a one-node graph score 0.
C5_ClosenessScore ==
    (Returned("closeness_centrality") /\ result.val.n >= node_count(graph)) =>
        \A u \in node_indices(graph) :
            \E i \in DOMAIN result.val.top.list :
                LET entry == result.val.top.list[i]
                IN /\ entry[1] = LabelOf(graph, u)
                   /\ IsNumber(entry[2], ExpectedScore(graph, u))
                   /\ neighbors(graph, u) = <<>> => entry[2] = F64(0)

\* A graph with an isolated node and a node that is not.
C5_Witness ==
    /\ Returned("closeness_centrality")
    /\ result.val.n >= node_count(graph)
    /\ \E u, v \in node_indices(graph) :
           /\ neighbors(graph, u) = <<>>
           /\ DistanceSum(graph, v) > 0
           /\ \E i \in DOMAIN result.val.top.list :
                  result.val.top.list[i] = <<LabelOf(graph, u), F64(0)>>

\* C6: in a graph that build_graph made, the sum of d * c over the entries
\* (d, c) of degree_distribution is twice the number of edges.
C6_DegreeSum ==
    (Returned("degree_distribution") /\ built) =>
        SumOver([d \in DOMAIN result.val |-> d * result.val[d]], DOMAIN result.val)
            = 2 * edge_count(graph)

\* Three areas of one day: a triangle, three nodes of degree 2.
C6_Witness ==
    /\ Returned("degree_distribution")
    /\ built
    /\ edge_count(graph) = 3
    /\ result.val = (2 :> 3)

\* Built from two records of different dates.
TwoDates ==
    /\ built
    /\ Len(entries) = 2
    /\ entries[1][1] # entries[2][1]

\* C7: component_count is the number of maximal sets of mutually reachable
\* nodes, an isolated node a set of its own; two nodes observed on different
\* dates are two components, and BFS from either returns that node alone.
C7_ComponentCount ==
    /\ Returned("component_count") =>
           /\ result.val = Cardinality(Components(graph))
           /\ TwoDates => result.val = 2
    /\ (Returned("bfs_distances") /\ TwoDates) => DOMAIN result.val = {start}

\* A component of several nodes beside an isolated node.
C7_Witness ==
    /\ Returned("component_count")
    /\ result.val = 2
    /\ node_count(graph) = 3

\* The ordered pairs (u, v), v reachable from u.
ReachablePairs(g) ==
    {p \in node_indices(g) \X node_indices(g) : p[2] \in Reachable(g, p[1])}

\* C8: for a graph with a node, avg_shortest_path is the sum of d(u, v) over
\* the ordered pairs (u, v) with v reachable from u, (u, u) included, divided
\* by the number of these pairs.
C8_AvgOverReachablePairs ==
    (Returned("avg_shortest_path") /\ node_count(graph) >= 1) =>
        LET P == ReachablePairs(graph)
        IN IsNumber(result.val,
                    [num |-> SumOver([p \in P |-> Distance(graph, p[1], p[2])], P),
                     den |-> Cardinality(P)])

\* Two components, one of them with an edge: 5 ordered pairs, 2 of them at
\* distance 1.
C8_Witness ==
    /\ Returned("avg_shortest_path")
    /\ node_count(graph) = 3
    /\ Cardinality(ReachablePairs(graph)) = 5
    /\ result.val = F64Div(2, 5)

----------------------------------------------------------------------------
\* The loop of bfs_distances.

InBfs == start # 0

\* Between the steps of the loop: a node has a distance iff it was enqueued, no
\* node was enqueued or dequeued twice, the queue holds the nodes enqueued and
\* not yet dequeued, and every iteration dequeued one node.
BfsLoopInvariant ==
    InBfs =>
        /\ DOMAIN dist = {n \in node_indices(graph) : pushes[n] >= 1}
        /\ \A n \in node_indices(graph) :
               /\ pushes[n] <= 1
               /\ pops[n] <= pushes[n]
               /\ Count(queue, n) = pushes[n] - pops[n]
        /\ iterations = SumOver(pops, node_indices(graph))

\* When the loop has ended: the queue is empty, the nodes reachable from the
\* start were enqueued once and dequeued once, no other node was, and there
\* were as many iterations as reachable nodes.
BfsLoopEnd ==
    Returned("bfs_distances") =>
        /\ queue = <<>>
        /\ \A n \in node_indices(graph) :
               /\ pushes[n] = (IF n \in Reachable(graph, start) THEN 1 ELSE 0)
               /\ pops[n] = pushes[n]
        /\ iterations = Cardinality(Reachable(graph, start))

\* A step gives a distance to the nodes it enqueues and to no other, and
\* changes no distance recorded before.
BfsLoopStep ==
    InBfs' =>
        /\ \A n \in node_indices(graph) :
               (n \in DOMAIN dist' /\ n \notin DOMAIN dist)
                   <=> pushes'[n] > (IF InBfs THEN pushes[n] ELSE 0)
        /\ \A n \in DOMAIN dist : n \in DOMAIN dist' /\ dist'[n] = dist[n]
        /\ (pc = "bfs" /\ pc' = "bfs") => iterations' = iterations + 1

\* While the loop runs it can take its next step: pop_front returns None and
\* the function returns, or it returns a node that has a distance, so that
\* dist[&node] does not panic.  The iterations made and the nodes waiting are
\* together no more than the reachable nodes.
BfsLoopProgress ==
    pc = "bfs" =>
        /\ queue # <<>> => Head(queue) \in DOMAIN dist
        /\ iterations + Len(queue) <= Cardinality(Reachable(graph, start))

\* C9: in the loop of bfs_distances a node is given its distance when it is
\* enqueued, every reachable node is enqueued once and dequeued once, a
\* recorded distance never changes, and the loop ends, the queue empty, after
\* as many iterations as there are reachable nodes.  (That it ends: it is
\* never stuck, every step but the return is one more iteration, and the
\* iterations are bounded.)
C9_BfsLoopRun ==
    /\ [](BfsLoopInvariant /\ BfsLoopProgress /\ BfsLoopEnd)
    /\ [][BfsLoopStep]_vars

\* A search that took two iterations and left an unreachable node out.
C9_Witness ==
    /\ Returned("bfs_distances")
    /\ iterations = 2
    /\ node_count(graph) = 3
    /\ \E n \in node_indices(graph) : dist[n] = 1 /\ pops[n] = 1

\* C10: in a graph that build_graph made two nodes are mutually reachable iff
\* they have the same date: bfs_distances returns the nodes of the start's
\* date, the start with 0 and the others with 1, and component_count is the
\* number of distinct dates of the input.
C10_DateCliques ==
    /\ JustBuilt =>
           \A u, v \in node_indices(graph) :
               v \in Reachable(graph, u) <=> DayOf(graph, u) = DayOf(graph, v)
    /\ (built /\ Returned("bfs_distances")) =>
           /\ DOMAIN result.val =
                  {v \in node_indices(graph) : DayOf(graph, v) = DayOf(graph, start)}
           /\ \A v \in DOMAIN result.val :
                  result.val[v] = (IF v = start THEN 0 ELSE 1)
    /\ (built /\ Returned("component_count")) =>
           result.val = Cardinality({e[1] : e \in Range(entries)})

\* Three areas of one day searched from the first: the other two at distance 1.
C10_Witness ==
    /\ built
    /\ Returned("bfs_distances")
    /\ node_count(graph) = 3
    /\ result.val = (1 :> 0) @@ (2 :> 1) @@ (3 :> 1)

====
